---- MODULE Spec2Model ----
(***************************************************************************)
(* A model of slex, a lexer generator: the regular-definition lexer and    *)
(* parser, the backtracking matcher, and the scanner (RegexEngine) that    *)
(* picks the longest match at each offset.                                 *)
(*                                                                         *)
(* A JavaScript string is modelled as a sequence of one-character strings, *)
(* an array as a sequence, a Map as a sequence of entries in insertion     *)
(* order.                                                                  *)
(***************************************************************************)
EXTENDS Integers, Sequences, FiniteSets, TLC

VARIABLES options, environment, generated, input,
          currentCharacterIndex, startCharacterIndex, last,
          ruleExpression, ruleTokens, ruleRoot, matchNode, matchRest, matchResult

(* the generator and its scanner *)
engine == <<options, environment, generated, input,
            currentCharacterIndex, startCharacterIndex, last>>

(* one rule expression on its way through RegexLexer and RegexParser: the  *)
(* expression, <<what lex returned>> and <<what parse returned>>, each <<>> *)
(* until the call is made                                                  *)
ruleVars == <<ruleExpression, ruleTokens, ruleRoot>>

(* one call of getMatches: <<the node>>, the rest string and <<the result>>, *)
(* <<>> until the call is made                                             *)
matchVars == <<matchNode, matchRest, matchResult>>

vars == <<options, environment, generated, input,
          currentCharacterIndex, startCharacterIndex, last,
          ruleExpression, ruleTokens, ruleRoot, matchNode, matchRest, matchResult>>

(***************************************************************************)
(* Bounds of the model.                                                    *)
(***************************************************************************)
MaxInputLen == 2
MaxRules == 2
MaxExpressionLen == 4
MaxRestLen == 3

(***************************************************************************)
(* Characters.                                                             *)
(***************************************************************************)
LF == "\n"
NUL == "\\0"
NULL == "null"
UNDEFINED == "undefined"

InputAlphabet == {"a", "b", LF}

RECURSIVE StringsUpTo(_)
StringsUpTo(n) ==
  IF n = 0 THEN {<<>>}
  ELSE LET shorter == StringsUpTo(n - 1)
       IN shorter \cup {Append(s, c) : s \in {t \in shorter : Len(t) = n - 1}, c \in InputAlphabet}

Range(s) == {s[i] : i \in 1..Len(s)}

isDigit(ch) == ch \in {"0", "1", "2", "3", "4", "5", "6", "7", "8", "9"}
isAlphabeticLowercase(ch) ==
  ch \in {"a", "b", "c", "d", "e", "f", "g", "h", "i", "j", "k", "l", "m",
          "n", "o", "p", "q", "r", "s", "t", "u", "v", "w", "x", "y", "z"}
isAlphabeticUppercase(ch) == ch \in {"A", "B", "C", "D", "E", "F"}
isAlphabetic(ch) == isAlphabeticLowercase(ch) \/ isAlphabeticUppercase(ch)
isControl(ch) == ch \in {LF, NUL, "\t", "\r"}
isSymbolic(ch) ==
  ch \in {"(", ")", "|", "+", "*", "$", "{", "}", "_", "-", "!", ".", "/"}
DefaultWhitespace == <<" ", "\t", LF, "\r">>
isWhitespace(whitespace, ch) == ch \in Range(whitespace)

(* s.charAt(i), i counted from 0: the empty string when out of range *)
charAt(s, i) == IF i >= 0 /\ i < Len(s) THEN s[i + 1] ELSE ""
(* s.substring(i) *)
substring(s, i) == IF i >= Len(s) THEN <<>> ELSE SubSeq(s, i + 1, Len(s))

(* s.replace(p, ""): the first occurrence of p in s is removed *)
replace(s, p) ==
  LET hits == {i \in 0..(Len(s) - Len(p)) : SubSeq(s, i + 1, i + Len(p)) = p}
  IN IF hits = {} THEN s
     ELSE LET i == CHOOSE j \in hits : \A k \in hits : j <= k
          IN SubSeq(s, 1, i) \o SubSeq(s, i + Len(p) + 1, Len(s))

(***************************************************************************)
(* Regex AST nodes.                                                        *)
(***************************************************************************)
RegexLiteralNode(ch) == [kind |-> "Literal", ch |-> ch]
RegexConcatenationNode(nodes) == [kind |-> "Concatenation", nodes |-> nodes]
RegexEitherNode(nodes) == [kind |-> "Either", nodes |-> nodes]
RegexGroupingNode(internalNode, modifier) ==
  [kind |-> "Grouping", internalNode |-> internalNode, modifier |-> modifier]
RegexVariableNode(variableName) == [kind |-> "Variable", variableName |-> variableName]
RegexIntrinsicNode(name) == [kind |-> "Intrinsic", name |-> name]

(* An environment entry: the root node with the emit and transformer fields *)
(* of RegexNode.                                                           *)
Entry(name, node, emit, transformer) ==
  [name |-> name, node |-> node, emit |-> emit, transformer |-> transformer]

EnvHas(env, name) == \E i \in 1..Len(env) : env[i].name = name
EnvGet(env, name) == env[CHOOSE i \in 1..Len(env) : env[i].name = name]
(* Map.set: an existing key keeps its place, a new key is appended *)
EnvSet(env, e) ==
  IF EnvHas(env, e.name)
    THEN [i \in 1..Len(env) |-> IF env[i].name = e.name THEN e ELSE env[i]]
    ELSE Append(env, e)

(***************************************************************************)
(* The matcher.  A result is the array of matches, or the fact that the    *)
(* call never returns.                                                     *)
(***************************************************************************)
Matched(ms) == [diverges |-> FALSE, matches |-> ms]
Diverges == [diverges |-> TRUE, matches |-> <<>>]

RECURSIVE Flatten(_)
Flatten(ss) == IF ss = <<>> THEN <<>> ELSE Head(ss) \o Flatten(Tail(ss))

Prepend(prefix, ms) == [i \in 1..Len(ms) |-> prefix \o ms[i]]

IntrinsicPredicate(name, ch) ==
  CASE name = "__decimal_digit" -> isDigit(ch)
    [] name = "__letter" -> isAlphabetic(ch)
    [] name = "__uppercase_letter" -> isAlphabeticUppercase(ch)
    [] name = "__lowercase_letter" -> isAlphabeticLowercase(ch)
    [] name = "__symbolic" -> isSymbolic(ch)
    [] name = "__control_character" -> isControl(ch)
    [] OTHER -> FALSE

RECURSIVE getMatches(_, _, _)
RECURSIVE ConcatenationStep(_, _, _, _)
RECURSIVE GroupingLoop(_, _, _, _)

(* nextCaches.push(...nextMatches.map((m) => cache + m)) over every cache, *)
(* per[i] being the matches found after caches[i]                          *)
Collect(caches, per) ==
  IF \E i \in 1..Len(caches) : per[i].diverges THEN Diverges
  ELSE Matched(Flatten([i \in 1..Len(caches) |-> Prepend(caches[i], per[i].matches)]))

(* the rest string a cache leaves: restString.replace(cache, "") *)
RestAfter(restString, cache) == replace(restString, cache)

(* one pass of the for loop of RegexConcatenationNode.getMatches, and of   *)
(* RegexGroupingNode.getMatches, where a cache that leaves nothing of the  *)
(* rest string is passed over                                              *)
ExtendAll(node, restString, environment_, caches, skipEmptyRest) ==
  Collect(caches,
          [i \in 1..Len(caches) |->
             IF skipEmptyRest /\ Len(RestAfter(restString, caches[i])) = 0 THEN Matched(<<>>)
             ELSE getMatches(node, RestAfter(restString, caches[i]), environment_)])

ConcatenationNext(nodes, restString, environment_, nextCaches) ==
  IF nextCaches.diverges THEN Diverges
  ELSE ConcatenationStep(nodes, restString, environment_, nextCaches.matches)

(* a loop that matches every node against the whole rest string, whatever *)
(* the cache has consumed                                                  *)
ConcatenationStep_NoAdvance(nodes, restString, environment_, caches) ==
  IF nodes = <<>> THEN Matched(caches)
  ELSE ConcatenationNext(Tail(nodes), restString, environment_,
                         Collect(caches,
                                 [i \in 1..Len(caches) |->
                                    getMatches(Head(nodes), restString, environment_)]))

ConcatenationStep(nodes, restString, environment_, caches) ==
  IF nodes = <<>> THEN Matched(caches)
  ELSE ConcatenationNext(Tail(nodes), restString, environment_,
                         ExtendAll(Head(nodes), restString, environment_, caches, FALSE))

(* a loop that ends after its first pass *)
GroupingNext_Once(internalNode, restString, environment_, matches, nextMatches) ==
  IF nextMatches.diverges THEN Diverges
  ELSE IF Len(nextMatches.matches) = 0 THEN Matched(matches)
  ELSE Matched(nextMatches.matches)

(* the end of a pass of the while (true) loop: the loop never ends once a  *)
(* pass reproduces the set of matches it started from, nor once a match is *)
(* longer than the rest string (replace then removes nothing, and every    *)
(* later pass appends what internalNode matches on the whole rest string)  *)
GroupingNext(internalNode, restString, environment_, matches, nextMatches) ==
  IF nextMatches.diverges THEN Diverges
  ELSE IF Len(nextMatches.matches) = 0 THEN Matched(matches)
  ELSE IF Range(nextMatches.matches) = Range(matches) THEN Diverges
  ELSE IF \E i \in 1..Len(nextMatches.matches) :
            Len(nextMatches.matches[i]) > Len(restString) THEN Diverges
  ELSE GroupingLoop(internalNode, restString, environment_, nextMatches.matches)

GroupingLoop(internalNode, restString, environment_, matches) ==
  GroupingNext(internalNode, restString, environment_, matches,
               ExtendAll(internalNode, restString, environment_, matches, TRUE))

EitherMatches(nodes, restString, environment_) ==
  Collect([i \in 1..Len(nodes) |-> <<>>],
          [i \in 1..Len(nodes) |-> getMatches(nodes[i], restString, environment_)])

(* a literal found anywhere in the rest string *)
LiteralMatches_Anywhere(ch, restString) ==
  IF ch \in Range(restString) THEN Matched(<<<<ch>>>>) ELSE Matched(<<>>)

LiteralMatches(ch, restString) ==
  IF Len(restString) = 0 THEN Matched(<<>>)
  ELSE IF charAt(restString, 0) = ch THEN Matched(<<<<charAt(restString, 0)>>>>)
  ELSE Matched(<<>>)

IntrinsicMatches(name, restString) ==
  IF IntrinsicPredicate(name, charAt(restString, 0))
    THEN Matched(<<<<charAt(restString, 0)>>>>)
    ELSE Matched(<<>>)

GroupingStart(internalNode, modifier, restString, environment_, initialMatches) ==
  IF initialMatches.diverges THEN Diverges
  ELSE IF Len(initialMatches.matches) = 0
    THEN IF modifier = "NONE_OR_MORE" THEN Matched(<<<<>>>>) ELSE Matched(<<>>)
  ELSE IF modifier = "NONE" THEN initialMatches
  ELSE GroupingLoop(internalNode, restString, environment_, initialMatches.matches)

GroupingMatches(internalNode, modifier, restString, environment_) ==
  GroupingStart(internalNode, modifier, restString, environment_,
                getMatches(internalNode, restString, environment_))

(* a variable node that treats an unknown name as the empty expression *)
VariableMatches_Epsilon(variableName, restString, environment_) ==
  IF ~EnvHas(environment_, variableName) THEN Matched(<<<<>>>>)
  ELSE getMatches(EnvGet(environment_, variableName).node, restString, environment_)

VariableMatches(variableName, restString, environment_) ==
  IF ~EnvHas(environment_, variableName) THEN Matched(<<>>)
  ELSE getMatches(EnvGet(environment_, variableName).node, restString, environment_)

getMatches(node, restString, environment_) ==
  CASE node.kind = "Literal" -> LiteralMatches(node.ch, restString)
    [] node.kind = "Intrinsic" -> IntrinsicMatches(node.name, restString)
    [] node.kind = "Variable" -> VariableMatches(node.variableName, restString, environment_)
    [] node.kind = "Either" -> EitherMatches(node.nodes, restString, environment_)
    [] node.kind = "Concatenation" ->
         ConcatenationStep(node.nodes, restString, environment_, <<<<>>>>)
    [] node.kind = "Grouping" ->
         GroupingMatches(node.internalNode, node.modifier, restString, environment_)

(***************************************************************************)
(* RegexLexer: a regular expression is broken up into tokens.              *)
(***************************************************************************)
RegexToken(type, value) == [type |-> type, value |-> value]

Lexed(tokens) == [hangs |-> FALSE, tokens |-> tokens]
LexHangs == [hangs |-> TRUE, tokens |-> <<>>]

RECURSIVE VariableEnd(_, _)
(* the index of the "}" that ends a variable name, or the expression's length *)
VariableEnd(expression, index) ==
  IF Len(expression) > index /\ charAt(expression, index) # "}"
    THEN VariableEnd(expression, index + 1)
    ELSE index

RECURSIVE LexFrom(_, _, _)
(* a lexer whose escape test lacks the end-of-expression case, so that a   *)
(* "${" that ends the expression falls to the variable branch              *)
LexFrom_OpenAtEnd(expression, index, tokens) ==
  IF ~(index < Len(expression)) THEN Lexed(tokens)
  ELSE LET currentCharacter == charAt(expression, index)
       IN CASE isAlphabetic(currentCharacter) \/ isDigit(currentCharacter) ->
                 LexFrom(expression, index + 1, Append(tokens, RegexToken("LITERAL", currentCharacter)))
            [] currentCharacter = "|" ->
                 LexFrom(expression, index + 1, Append(tokens, RegexToken("PIPE", currentCharacter)))
            [] currentCharacter = "+" ->
                 LexFrom(expression, index + 1, Append(tokens, RegexToken("PLUS", currentCharacter)))
            [] currentCharacter = "*" ->
                 LexFrom(expression, index + 1, Append(tokens, RegexToken("ASTERISK", currentCharacter)))
            [] currentCharacter = "(" ->
                 LexFrom(expression, index + 1, Append(tokens, RegexToken("LPAREN", currentCharacter)))
            [] currentCharacter = ")" ->
                 LexFrom(expression, index + 1, Append(tokens, RegexToken("RPAREN", currentCharacter)))
            [] currentCharacter = "$" ->
                 IF Len(expression) > index + 1 /\ charAt(expression, index + 1) # "{"
                   THEN LexFrom(expression, index + 2,
                                Append(tokens, RegexToken("LITERAL", charAt(expression, index + 1))))
                   ELSE IF index + 2 = Len(expression)
                     THEN LexFrom(expression, index + 2, Append(tokens, RegexToken("LITERAL", "}")))
                     ELSE LET end == VariableEnd(expression, index + 2)
                              variableName == IF end <= index + 2 THEN <<>>
                                              ELSE SubSeq(expression, index + 3, end)
                          IN LexFrom(expression, end + 1,
                                     Append(tokens, RegexToken("VARIABLE", variableName)))
            [] isWhitespace(DefaultWhitespace, currentCharacter) ->
                 LexFrom(expression, index + 1, tokens)
            [] OTHER -> LexHangs

LexFrom(expression, index, tokens) ==
  IF ~(index < Len(expression)) THEN Lexed(tokens)
  ELSE LET currentCharacter == charAt(expression, index)
       IN CASE isAlphabetic(currentCharacter) \/ isDigit(currentCharacter) ->
                 LexFrom(expression, index + 1, Append(tokens, RegexToken("LITERAL", currentCharacter)))
            [] currentCharacter = "|" ->
                 LexFrom(expression, index + 1, Append(tokens, RegexToken("PIPE", currentCharacter)))
            [] currentCharacter = "+" ->
                 LexFrom(expression, index + 1, Append(tokens, RegexToken("PLUS", currentCharacter)))
            [] currentCharacter = "*" ->
                 LexFrom(expression, index + 1, Append(tokens, RegexToken("ASTERISK", currentCharacter)))
            [] currentCharacter = "(" ->
                 LexFrom(expression, index + 1, Append(tokens, RegexToken("LPAREN", currentCharacter)))
            [] currentCharacter = ")" ->
                 LexFrom(expression, index + 1, Append(tokens, RegexToken("RPAREN", currentCharacter)))
            [] currentCharacter = "$" ->
                 IF \/ (Len(expression) > index + 1 /\ charAt(expression, index + 1) # "{")
                    \/ Len(expression) = index + 2
                   THEN LexFrom(expression, index + 2,
                                Append(tokens, RegexToken("LITERAL", charAt(expression, index + 1))))
                   ELSE IF index + 2 = Len(expression)
                     THEN LexFrom(expression, index + 2, Append(tokens, RegexToken("LITERAL", "}")))
                     ELSE LET end == VariableEnd(expression, index + 2)
                              variableName == IF end <= index + 2 THEN <<>>
                                              ELSE SubSeq(expression, index + 3, end)
                          IN LexFrom(expression, end + 1,
                                     Append(tokens, RegexToken("VARIABLE", variableName)))
            [] isWhitespace(DefaultWhitespace, currentCharacter) ->
                 LexFrom(expression, index + 1, tokens)
            [] OTHER -> LexHangs

lex(expression) == LexFrom(expression, 0, <<>>)

(***************************************************************************)
(* RegexParser: recursive descent over the tokens.  A result is the node   *)
(* with the index of the next token, or the error thrown.                  *)
(***************************************************************************)
Parsed(node, index) == [ok |-> TRUE, node |-> node, index |-> index, error |-> "none"]
ParseThrows(error) == [ok |-> FALSE, node |-> NULL, index |-> 0, error |-> error]

RECURSIVE parseFrom(_, _)
RECURSIVE parseLoop(_, _, _)
RECURSIVE parseConcatenation(_, _)
RECURSIVE parseConcatenationLoop(_, _, _)
RECURSIVE parseTerminal(_, _)

(* tokens[index].type: reading the type of a token past the end of the     *)
(* array is a TypeError                                                    *)
HasToken(tokens, index) == index < Len(tokens)
TypeAt(tokens, index) == tokens[index + 1].type

expect(tokens, currentTokenIndex, type) ==
  IF ~HasToken(tokens, currentTokenIndex) THEN ParseThrows("TypeError")
  ELSE IF TypeAt(tokens, currentTokenIndex) = type
    THEN Parsed(NULL, currentTokenIndex + 1)
    ELSE ParseThrows("Error")

(* after expect(RPAREN): the modifier, then the RegexGroupingNode *)
GroupingAfter(tokens, internalNode, closed) ==
  IF ~closed.ok THEN closed
  ELSE IF ~HasToken(tokens, closed.index) THEN ParseThrows("TypeError")
  ELSE IF TypeAt(tokens, closed.index) = "ASTERISK"
    THEN Parsed(RegexGroupingNode(internalNode, "NONE_OR_MORE"), closed.index + 1)
  ELSE IF TypeAt(tokens, closed.index) = "PLUS"
    THEN Parsed(RegexGroupingNode(internalNode, "ONE_OR_MORE"), closed.index + 1)
  ELSE Parsed(RegexGroupingNode(internalNode, "NONE"), closed.index)

(* case LPAREN, once this.parse() has returned internal *)
GroupingOf(tokens, internal) ==
  IF ~internal.ok THEN internal
  ELSE GroupingAfter(tokens, internal.node, expect(tokens, internal.index, "RPAREN"))

parseTerminal(tokens, currentTokenIndex) ==
  IF ~HasToken(tokens, currentTokenIndex) THEN ParseThrows("TypeError")
  ELSE CASE TypeAt(tokens, currentTokenIndex) = "LPAREN" ->
              GroupingOf(tokens, parseFrom(tokens, currentTokenIndex + 1))
         [] TypeAt(tokens, currentTokenIndex) = "LITERAL" ->
              Parsed(RegexLiteralNode(charAt(<<tokens[currentTokenIndex + 1].value>>, 0)),
                     currentTokenIndex + 1)
         [] TypeAt(tokens, currentTokenIndex) = "VARIABLE" ->
              Parsed(RegexVariableNode(tokens[currentTokenIndex + 1].value), currentTokenIndex + 1)
         [] OTHER -> ParseThrows("Error")

(* nodes.push(nextNode), and the loop again *)
parseConcatenationPush(tokens, nodes, nextNode) ==
  IF ~nextNode.ok THEN nextNode
  ELSE parseConcatenationLoop(tokens, nextNode.index, Append(nodes, nextNode.node))

parseConcatenationLoop(tokens, currentTokenIndex, nodes) ==
  IF /\ HasToken(tokens, currentTokenIndex)
     /\ TypeAt(tokens, currentTokenIndex) # "PIPE"
     /\ TypeAt(tokens, currentTokenIndex) # "RPAREN"
    THEN parseConcatenationPush(tokens, nodes, parseTerminal(tokens, currentTokenIndex))
    ELSE IF Len(nodes) > 1 THEN Parsed(RegexConcatenationNode(nodes), currentTokenIndex)
    ELSE Parsed(nodes[1], currentTokenIndex)

parseConcatenation(tokens, currentTokenIndex) ==
  parseConcatenationPush(tokens, <<>>, parseTerminal(tokens, currentTokenIndex))

(* possibles.push(nextNode), and the loop again *)
parsePush(tokens, possibles, nextNode) ==
  IF ~nextNode.ok THEN nextNode
  ELSE parseLoop(tokens, nextNode.index, Append(possibles, nextNode.node))

parseLoop(tokens, currentTokenIndex, possibles) ==
  IF HasToken(tokens, currentTokenIndex) /\ TypeAt(tokens, currentTokenIndex) = "PIPE"
    THEN parsePush(tokens, possibles, parseConcatenation(tokens, currentTokenIndex + 1))
    ELSE IF Len(possibles) > 1 THEN Parsed(RegexEitherNode(possibles), currentTokenIndex)
    ELSE Parsed(possibles[1], currentTokenIndex)

parseFrom(tokens, currentTokenIndex) ==
  parsePush(tokens, <<>>, parseConcatenation(tokens, currentTokenIndex))

parse(tokens) == parseFrom(tokens, 0)

(***************************************************************************)
(* ColumnAndRow.calculate: the row and column of an index of the source.   *)
(* lines[currentLine] past the last line is undefined, and reading its     *)
(* length throws a TypeError.                                              *)
(***************************************************************************)
RECURSIVE split(_, _)
(* source.split("\n", -1), current being the line read so far *)
split(source, current) ==
  IF source = <<>> THEN <<current>>
  ELSE IF Head(source) = LF THEN <<current>> \o split(Tail(source), <<>>)
  ELSE split(Tail(source), Append(current, Head(source)))

RECURSIVE calculateFrom(_, _, _)
calculateFrom(lines, currentLine, column) ==
  IF currentLine >= Len(lines) THEN [throws |-> TRUE, row |-> 0, column |-> 0]
  ELSE IF column > Len(lines[currentLine + 1])
    THEN calculateFrom(lines, currentLine + 1, column - (Len(lines[currentLine + 1]) + 1))
    ELSE [throws |-> FALSE, row |-> currentLine, column |-> column]

calculate(index, source) == calculateFrom(split(source, <<>>), 0, index)
(* a row that is left 0-based *)
getActualRow_ZeroBased(position) == position.row

getActualRow(position) == position.row + 1
getActualColumn(position) == position.column

(***************************************************************************)
(* Lexeme transformers a rule can be registered with.                      *)
(***************************************************************************)
Min(a, b) == IF a < b THEN a ELSE b
Max(a, b) == IF a > b THEN a ELSE b
(* s.substring(from, to): both clamped to the string, swapped when from > to *)
substring2(s, from, to) ==
  LET f == Min(Max(from, 0), Len(s))
      t == Min(Max(to, 0), Len(s))
  IN SubSeq(s, Min(f, t) + 1, Max(f, t))

(* "strip": (str) => str.substring(1, str.length - 1), as the string_literal *)
(* rule of examples/basic.ts                                               *)
ApplyTransformer(transformer, lexeme) ==
  IF transformer = "strip" THEN substring2(lexeme, 1, Len(lexeme) - 1) ELSE lexeme

(***************************************************************************)
(* SlexOptions.                                                            *)
(***************************************************************************)
(* isHigherPrecedence({current, next}): "never" is ({current, next}) =>    *)
(* false, "keywords" is current === the identifier-like type "C", "always" *)
(* is true                                                                 *)
isHigherPrecedence(options_, current, next) ==
  CASE options_.isHigherPrecedence = "never" -> FALSE
    [] options_.isHigherPrecedence = "keywords" -> current = "C"
    [] OTHER -> TRUE

(* initializeCharacter: options.whitespace || [" ", "\t", "\n", "\r"] *)
initializeCharacter(options_) ==
  IF options_.whitespaceCharacters = UNDEFINED THEN DefaultWhitespace
  ELSE options_.whitespaceCharacters

OptionSets ==
  { [EOF_TYPE |-> "EOF", isHigherPrecedence |-> "never",
     whitespaceCharacters |-> UNDEFINED, ignoreTokens |-> UNDEFINED],
    [EOF_TYPE |-> "EOF", isHigherPrecedence |-> "keywords",
     whitespaceCharacters |-> UNDEFINED, ignoreTokens |-> <<"B">>],
    [EOF_TYPE |-> "EOF", isHigherPrecedence |-> "always",
     whitespaceCharacters |-> <<NUL>>, ignoreTokens |-> <<>>] }

(***************************************************************************)
(* RegexEngine.                                                            *)
(***************************************************************************)
hasNextToken(input_, currentIndex) == currentIndex < Len(input_)

peek(input_, currentIndex) ==
  IF currentIndex >= Len(input_) THEN NUL ELSE charAt(input_, currentIndex)

RECURSIVE ignoreWhitespace(_, _, _)
(* the index after skipping over every piece of whitespace *)
ignoreWhitespace(options_, input_, currentIndex) ==
  IF /\ currentIndex < Len(input_) + 1
     /\ isWhitespace(initializeCharacter(options_), peek(input_, currentIndex))
    THEN ignoreWhitespace(options_, input_, currentIndex + 1)
    ELSE currentIndex

RECURSIVE longestOf(_, _)
(* for (const match of matches) if (match.length > longest.length) longest = match *)
longestOf(matches, longest) ==
  IF matches = <<>> THEN longest
  ELSE longestOf(Tail(matches), IF Len(Head(matches)) > Len(longest) THEN Head(matches) ELSE longest)

RegexEngineParsingResult(success, lexeme, from) ==
  [success |-> success, lexeme |-> lexeme, from |-> from]

(* the replacement condition with the comparison of the lengths turned     *)
(* round: a shorter match replaces a longer one                            *)
ShouldReplace_Shorter(options_, ret, retNode, longest, attemptNode) ==
  \/ ~ret.success
  \/ Len(ret.lexeme) > Len(longest)
  \/ /\ Len(ret.lexeme) = Len(longest)
     /\ retNode # <<>>
     /\ isHigherPrecedence(options_, retNode[1].emit, attemptNode.emit)

(* the replacement condition with the two types handed to the precedence   *)
(* function in the other order                                             *)
ShouldReplace_Swapped(options_, ret, retNode, longest, attemptNode) ==
  \/ ~ret.success
  \/ Len(ret.lexeme) < Len(longest)
  \/ /\ Len(ret.lexeme) = Len(longest)
     /\ retNode # <<>>
     /\ isHigherPrecedence(options_, attemptNode.emit, retNode[1].emit)

(* the condition under which the rule attemptNode replaces the best so far; *)
(* retNode is null before the first match                                  *)
ShouldReplace(options_, ret, retNode, longest, attemptNode) ==
  \/ ~ret.success
  \/ Len(ret.lexeme) < Len(longest)
  \/ /\ Len(ret.lexeme) = Len(longest)
     /\ retNode # <<>>
     /\ isHigherPrecedence(options_, retNode[1].emit, attemptNode.emit)

(* a loop that considers every entry, the ones without an emit type too *)
IsCandidate_Always(attemptNode) == TRUE

(* whether the loop over the environment considers the entry at all *)
IsCandidate(attemptNode) == attemptNode.emit # NULL

RECURSIVE selectFrom(_, _, _, _, _, _)

(* if (...) { ret = new RegexEngineParsingResult(true, longest, ruleName); *)
(* retNode = attemptNode }, and the next entry                             *)
selectLongest(options_, environment_, restString, i, ret, retNode, longest) ==
  IF ShouldReplace(options_, ret, retNode, longest, environment_[i])
    THEN selectFrom(options_, environment_, restString, i + 1,
                    RegexEngineParsingResult(TRUE, longest, environment_[i].name),
                    <<environment_[i]>>)
    ELSE selectFrom(options_, environment_, restString, i + 1, ret, retNode)

(* if (matches.length > 0) ... *)
selectMatches(options_, environment_, restString, i, ret, retNode, matches) ==
  IF matches.diverges THEN [hangs |-> TRUE, ret |-> ret, retNode |-> retNode]
  ELSE IF Len(matches.matches) > 0
    THEN selectLongest(options_, environment_, restString, i, ret, retNode,
                       longestOf(matches.matches, <<>>))
  ELSE selectFrom(options_, environment_, restString, i + 1, ret, retNode)

(* the for loop over environment.entries(), from entry i on; retNode is    *)
(* <<>> for null and <<node>> otherwise                                    *)
selectFrom(options_, environment_, restString, i, ret, retNode) ==
  IF i > Len(environment_) THEN [hangs |-> FALSE, ret |-> ret, retNode |-> retNode]
  ELSE IF ~IsCandidate(environment_[i])
    THEN selectFrom(options_, environment_, restString, i + 1, ret, retNode)
  ELSE selectMatches(options_, environment_, restString, i, ret, retNode,
                     getMatches(environment_[i].node, restString, environment_))

(* The outcome of a scanner call: kind is "token", "eof", "fail" (a        *)
(* TokenResult with success false), "crash" (a TypeError escaped) or       *)
(* "hang" (the call never returns); index is currentCharacterIndex and     *)
(* start is startCharacterIndex as the call leaves them.                   *)
Outcome(kind, type, lexeme, raw, from, position, index, start) ==
  [kind |-> kind, type |-> type, lexeme |-> lexeme, raw |-> raw, from |-> from,
   line |-> IF position.throws THEN 0 ELSE getActualRow(position),
   column |-> IF position.throws THEN 0 ELSE getActualColumn(position),
   index |-> index, start |-> start]

(* if (this.hasNextToken() === false) { ... } *)
endOfInput(options_, position, currentIndex) ==
  IF position.throws
    THEN Outcome("crash", NULL, <<>>, <<>>, <<>>, position, currentIndex, currentIndex)
    ELSE Outcome("eof", options_.EOF_TYPE, <<>>, <<>>, <<>>, position, currentIndex, currentIndex)

(* what follows the for loop when the failure leaves the index where the   *)
(* attempt began                                                           *)
afterSelect_NoAdvance(sel, position, currentIndex) ==
  IF sel.hangs
    THEN Outcome("hang", NULL, <<>>, <<>>, <<>>, position, currentIndex, currentIndex)
  ELSE IF sel.retNode # <<>> /\ sel.retNode[1].emit # NULL
    THEN Outcome("token", sel.retNode[1].emit,
                 ApplyTransformer(sel.retNode[1].transformer, sel.ret.lexeme),
                 sel.ret.lexeme, sel.ret.from, position,
                 currentIndex + Len(sel.ret.lexeme), currentIndex)
  ELSE Outcome("fail", NULL, <<>>, <<>>, <<>>, position, currentIndex, currentIndex)

(* what follows the for loop when the index is moved by the length of the  *)
(* token's lexeme, the transformer's result                                *)
afterSelect_AdvanceByLexeme(sel, position, currentIndex) ==
  IF sel.hangs
    THEN Outcome("hang", NULL, <<>>, <<>>, <<>>, position, currentIndex, currentIndex)
  ELSE IF sel.retNode # <<>> /\ sel.retNode[1].emit # NULL
    THEN Outcome("token", sel.retNode[1].emit,
                 ApplyTransformer(sel.retNode[1].transformer, sel.ret.lexeme),
                 sel.ret.lexeme, sel.ret.from, position,
                 currentIndex + Len(ApplyTransformer(sel.retNode[1].transformer, sel.ret.lexeme)),
                 currentIndex)
  ELSE Outcome("fail", NULL, <<>>, <<>>, <<>>, position, currentIndex + 1, currentIndex)

(* what follows the for loop: the token of the best rule, or the failure   *)
(* with the index moved by one                                             *)
afterSelect(sel, position, currentIndex) ==
  IF sel.hangs
    THEN Outcome("hang", NULL, <<>>, <<>>, <<>>, position, currentIndex, currentIndex)
  ELSE IF sel.retNode # <<>> /\ sel.retNode[1].emit # NULL
    THEN Outcome("token", sel.retNode[1].emit,
                 ApplyTransformer(sel.retNode[1].transformer, sel.ret.lexeme),
                 sel.ret.lexeme, sel.ret.from, position,
                 currentIndex + Len(sel.ret.lexeme), currentIndex)
  ELSE Outcome("fail", NULL, <<>>, <<>>, <<>>, position, currentIndex + 1, currentIndex)

_tryGetNextToken(options_, environment_, input_, currentIndex) ==
  IF hasNextToken(input_, currentIndex) = FALSE
    THEN endOfInput(options_, calculate(currentIndex, input_), currentIndex)
    ELSE afterSelect(selectFrom(options_, environment_, substring(input_, currentIndex), 1,
                                RegexEngineParsingResult(FALSE, <<>>, <<>>), <<>>),
                     calculate(currentIndex, input_), currentIndex)

(* tryGetNextNonSkippedToken returns null when the token is one of         *)
(* options.ignoreTokens                                                    *)
Skipped(options_, ret) ==
  /\ ret.kind \in {"token", "eof"}
  /\ options_.ignoreTokens # UNDEFINED
  /\ ret.type \in Range(options_.ignoreTokens)

RECURSIVE tryGetNextToken(_, _, _, _)

(* while (... === null): a pass that skips a token and leaves the index    *)
(* where it was repeats for ever                                           *)
tryGetNextTokenAgain(options_, environment_, input_, currentIndex, ret) ==
  IF Skipped(options_, ret)
    THEN IF ret.index = currentIndex THEN [ret EXCEPT !.kind = "hang"]
         ELSE tryGetNextToken(options_, environment_, input_, ret.index)
    ELSE ret

(* do this.ignoreWhitespace(); while (tryGetNextNonSkippedToken() === null) *)
tryGetNextToken(options_, environment_, input_, currentIndex) ==
  tryGetNextTokenAgain(options_, environment_, input_, currentIndex,
    _tryGetNextToken(options_, environment_, input_,
                     ignoreWhitespace(options_, input_, currentIndex)))

(* a peek that does not put the index back *)
Restore_Nothing(save, response) == response

(* a peek that puts the index at the start of the token it found *)
Restore_ToStart(save, response) ==
  IF response.kind \in {"crash", "hang"} THEN response
  ELSE [response EXCEPT !.index = response.start]

(* this.currentCharacterIndex = save, once tryGetNextToken has returned *)
Restore(save, response) ==
  IF response.kind \in {"crash", "hang"} THEN response
  ELSE [response EXCEPT !.index = save]

tryPeekNextToken(options_, environment_, input_, currentIndex) ==
  Restore(currentIndex, tryGetNextToken(options_, environment_, input_, currentIndex))

(***************************************************************************)
(* Slex: the generator.  Its constructor registers the intrinsics.         *)
(***************************************************************************)
Intrinsics ==
  <<Entry(<<"_", "_", "d", "e", "c", "i", "m", "a", "l", "_", "d", "i", "g", "i", "t">>,
           RegexIntrinsicNode("__decimal_digit"), NULL, NULL),
     Entry(<<"_", "_", "l", "e", "t", "t", "e", "r">>,
           RegexIntrinsicNode("__letter"), NULL, NULL),
     Entry(<<"_", "_", "u", "p", "p", "e", "r", "c", "a", "s", "e", "_", "l", "e", "t", "t", "e", "r">>,
           RegexIntrinsicNode("__uppercase_letter"), NULL, NULL),
     Entry(<<"_", "_", "l", "o", "w", "e", "r", "c", "a", "s", "e", "_", "l", "e", "t", "t", "e", "r">>,
           RegexIntrinsicNode("__lowercase_letter"), NULL, NULL),
     Entry(<<"_", "_", "s", "y", "m", "b", "o", "l", "s">>,
           RegexIntrinsicNode("__symbolic"), NULL, NULL),
     Entry(<<"_", "_", "c", "o", "n", "t", "r", "o", "l", "_", "c", "h", "a", "r", "a", "c", "t", "e", "r">>,
           RegexIntrinsicNode("__control_character"), NULL, NULL)>>

(* The addRule calls the model makes: name, expression, emit, transformer. *)
RuleCatalogue ==
  { [name |-> <<"x">>, expression |-> <<"a">>,
     emit |-> "A", transformer |-> UNDEFINED],
    [name |-> <<"y">>, expression |-> <<"(", "a", "b", ")", "*", "a">>,
     emit |-> "B", transformer |-> UNDEFINED],
    [name |-> <<"z">>, expression |-> <<"a", "|", "b">>,
     emit |-> "C", transformer |-> UNDEFINED],
    [name |-> <<"h">>, expression |-> <<"(", "a", "|", "b", ")", "+">>,
     emit |-> UNDEFINED, transformer |-> UNDEFINED],
    [name |-> <<"w">>, expression |-> <<"(", "$", "{", "_", "_", "l", "o", "w", "e", "r", "c", "a", "s", "e", "_", "l", "e", "t", "t", "e", "r", "}", ")", "+">>,
     emit |-> "B", transformer |-> "strip"] }

(* what addRule does with the parser's result: "throw" when the parser    *)
(* threw, and otherwise environment.set(name, root)                        *)
Register(environment_, name, emit, transformer, root) ==
  IF ~root.ok THEN [kind |-> "throw", environment |-> environment_]
  ELSE [kind |-> "ok",
        environment |->
          EnvSet(environment_,
                 Entry(name, root.node,
                       IF emit # UNDEFINED THEN emit ELSE NULL,
                       IF transformer # UNDEFINED THEN transformer ELSE NULL))]

(* what addRule does with the lexer's tokens; "hang" when the lexer never  *)
(* returns                                                                 *)
ParseAndRegister(environment_, name, emit, transformer, tokens) ==
  IF tokens.hangs THEN [kind |-> "hang", environment |-> environment_]
  ELSE Register(environment_, name, emit, transformer, parse(tokens.tokens))

addRule(environment_, name, expression, emit, transformer) ==
  ParseAndRegister(environment_, name, emit, transformer, lex(expression))

(***************************************************************************)
(* The state machine.  last is the last call made and its outcome: op is   *)
(* "get" for getNextToken and tryGetNextToken, "peek" for peekNextToken    *)
(* and tryPeekNextToken, raised tells that the call threw, before is the   *)
(* value of currentCharacterIndex when the call was made, and afterPeek    *)
(* tells that the call before it was a peek.                               *)
(***************************************************************************)
NoPosition == [throws |-> TRUE, row |-> 0, column |-> 0]

Call(op, raised, before, afterPeek, outcome) ==
  [op |-> op, raised |-> raised, before |-> before, afterPeek |-> afterPeek,
   kind |-> outcome.kind, type |-> outcome.type, lexeme |-> outcome.lexeme,
   raw |-> outcome.raw, from |-> outcome.from, line |-> outcome.line,
   column |-> outcome.column]

Plain(op, kind) ==
  Call(op, kind = "throw", 0, FALSE, Outcome(kind, NULL, <<>>, <<>>, <<>>, NoPosition, 0, 0))

(* no rule expression is being read and no getMatches call is made *)
NoRule == ruleExpression = <<>> /\ ruleTokens = <<>> /\ ruleRoot = <<>>
NoMatching == matchNode = <<>> /\ matchRest = <<>> /\ matchResult = <<>>

Init ==
  /\ options \in OptionSets
  /\ environment = Intrinsics
  /\ generated = FALSE
  /\ input = <<>>
  /\ currentCharacterIndex = 0
  /\ startCharacterIndex = 0
  /\ last = Plain("new", "ok")
  /\ NoRule
  /\ NoMatching

Running == last.kind # "hang"

UserRules(environment_) == Len(environment_) - Len(Intrinsics)

(* Slex.addRule; the RegexEngine holds the same Map object, so the rule is *)
(* set in the environment the engine reads                                 *)
AddRule ==
  /\ Running
  /\ \E rule \in RuleCatalogue :
       /\ EnvHas(environment, rule.name) \/ UserRules(environment) < MaxRules
       /\ \E done \in {addRule(environment, rule.name, rule.expression, rule.emit, rule.transformer)} :
            /\ environment' = done.environment
            /\ last' = Plain("addRule", done.kind)
  /\ UNCHANGED <<options, generated, input, currentCharacterIndex, startCharacterIndex>>
  /\ UNCHANGED <<ruleVars, matchVars>>

(* Slex.generate: a RegexEngine over the input *)
Generate ==
  /\ Running
  /\ ~generated
  /\ \E source \in StringsUpTo(MaxInputLen) :
       input' = source
  /\ generated' = TRUE
  /\ currentCharacterIndex' = 0
  /\ startCharacterIndex' = 0
  /\ last' = Plain("generate", "ok")
  /\ UNCHANGED <<options, environment>>
  /\ UNCHANGED <<ruleVars, matchVars>>

Scan(op, outcome, raised) ==
  /\ currentCharacterIndex' = outcome.index
  /\ startCharacterIndex' = outcome.start
  /\ last' = Call(op, raised, currentCharacterIndex, op = "get" /\ last.op = "peek", outcome)
  /\ UNCHANGED <<options, environment, generated, input>>
  /\ UNCHANGED <<ruleVars, matchVars>>

TryGetNextToken ==
  /\ Running /\ generated
  /\ \E outcome \in {tryGetNextToken(options, environment, input, currentCharacterIndex)} :
       Scan("get", outcome, outcome.kind = "crash")

(* getNextToken: throws when the result is not a success *)
GetNextToken ==
  /\ Running /\ generated
  /\ \E outcome \in {tryGetNextToken(options, environment, input, currentCharacterIndex)} :
       Scan("get", outcome, outcome.kind \in {"crash", "fail"})

TryPeekNextToken ==
  /\ Running /\ generated
  /\ \E outcome \in {tryPeekNextToken(options, environment, input, currentCharacterIndex)} :
       Scan("peek", outcome, outcome.kind = "crash")

(* peekNextToken: throws when the result is not a success *)
PeekNextToken ==
  /\ Running /\ generated
  /\ \E outcome \in {tryPeekNextToken(options, environment, input, currentCharacterIndex)} :
       Scan("peek", outcome, outcome.kind \in {"crash", "fail"})

Next ==
  \/ AddRule
  \/ Generate
  \/ TryGetNextToken
  \/ GetNextToken
  \/ TryPeekNextToken
  \/ PeekNextToken

Spec == Init /\ [][Next]_vars

(***************************************************************************)
(* getMatches on its own: a node and a rest string are drawn, over the     *)
(* intrinsics alone or with the helper rule h, and getMatches is called.   *)
(***************************************************************************)
RestAlphabet == {"a", "b"}

RECURSIVE RestStrings(_)
RestStrings(n) ==
  IF n = 0 THEN {<<>>}
  ELSE RestStrings(n - 1) \cup
       {Append(r, ch) : r \in {q \in RestStrings(n - 1) : Len(q) = n - 1}, ch \in RestAlphabet}

LowercaseLetter == Intrinsics[4].name
HelperName == <<"h">>

Modifiers == {"NONE", "NONE_OR_MORE", "ONE_OR_MORE"}
Groupings(S) == {RegexGroupingNode(n, m) : n \in S, m \in Modifiers}
Pairs(S) == {<<x, y>> : x \in S, y \in S}

MatchAtoms ==
  {RegexLiteralNode("a"), RegexLiteralNode("b"),
   RegexVariableNode(LowercaseLetter), RegexVariableNode(HelperName)}

MatchSimple == MatchAtoms \cup Groupings(MatchAtoms)

MatchNodes ==
  MatchSimple
    \cup Groupings(Groupings(MatchAtoms))
    \cup {RegexConcatenationNode(p) : p \in Pairs(MatchSimple)}
    \cup {RegexEitherNode(p) : p \in Pairs(MatchSimple)}
    \cup {RegexConcatenationNode(<<x, y, z>>) : x \in MatchAtoms, y \in MatchAtoms, z \in MatchAtoms}
    \cup Groupings({RegexConcatenationNode(p) : p \in Pairs(MatchAtoms)})
    \cup Groupings({RegexEitherNode(p) : p \in Pairs(MatchAtoms)})

(* the environment after addRule("h", "(a|b)+") *)
HelperEnvironment ==
  addRule(Intrinsics, HelperName, <<"(", "a", "|", "b", ")", "+">>, UNDEFINED, UNDEFINED).environment

Idle ==
  /\ options = [EOF_TYPE |-> "EOF", isHigherPrecedence |-> "never",
                whitespaceCharacters |-> UNDEFINED, ignoreTokens |-> UNDEFINED]
  /\ generated = FALSE
  /\ input = <<>>
  /\ currentCharacterIndex = 0
  /\ startCharacterIndex = 0
  /\ last = Plain("new", "ok")

MatcherInit ==
  /\ Idle
  /\ NoRule
  /\ environment \in {Intrinsics, HelperEnvironment}
  /\ matchNode \in {<<n>> : n \in MatchNodes}
  /\ matchRest \in RestStrings(MaxRestLen)
  /\ matchResult = <<>>

(* node.getMatches(restString, environment) *)
GetMatches ==
  /\ matchResult = <<>>
  /\ matchNode # <<>>
  /\ \E result \in {getMatches(matchNode[1], matchRest, environment)} :
       matchResult' = <<result>>
  /\ UNCHANGED <<engine, ruleVars, matchNode, matchRest>>

MatcherNext == GetMatches

MatcherSpec == MatcherInit /\ [][MatcherNext]_vars

(***************************************************************************)
(* What the scanner's calls are checked against.  After a call            *)
(* startCharacterIndex is the offset at which the last token attempt       *)
(* began, and environment and input are the ones the call read.            *)
(***************************************************************************)
ScanReturned == generated /\ last.op \in {"get", "peek"}
TokenReturned == ScanReturned /\ last.kind = "token"

(* per entry of the environment, the length of the longest match of an     *)
(* emitting rule at the offset, and -1 when the rule emits nothing or has  *)
(* no match there                                                          *)
LongestLengthsAt(environment_, input_, index) ==
  [i \in 1..Len(environment_) |->
     IF environment_[i].emit = NULL THEN -1
     ELSE IF Len(getMatches(environment_[i].node, substring(input_, index), environment_).matches) = 0
       THEN -1
     ELSE Len(longestOf(getMatches(environment_[i].node, substring(input_, index), environment_).matches, <<>>))]

LongestLengths == LongestLengthsAt(environment, input, startCharacterIndex)

MatchingIn(lengths) == {i \in DOMAIN lengths : lengths[i] >= 0}
TopIn(lengths) == {i \in MatchingIn(lengths) : \A j \in MatchingIn(lengths) : lengths[i] >= lengths[j]}

WonBy(i) == last.from = environment[i].name /\ last.type = environment[i].emit

(* C1 [longest-match law]: when a token is returned and two emitting rules *)
(* both match at the token's start, the one whose longest match is         *)
(* strictly shorter is never the rule the token comes from, whatever the   *)
(* registration order and the precedence; when they are the only two       *)
(* matching rules the token has the type of the longer one.                *)
C1_Law(lengths) ==
  \A i, j \in MatchingIn(lengths) :
    lengths[i] > lengths[j] =>
      /\ last.from # environment[j].name
      /\ MatchingIn(lengths) = {i, j} => WonBy(i)

C1_LongestMatchWins == TokenReturned => C1_Law(LongestLengths)

(* the longer rule is registered first and the precedence prefers the      *)
(* later, shorter one: the longer one still wins                           *)
C1_Case(lengths) ==
  \E i, j \in MatchingIn(lengths) :
    /\ i < j
    /\ lengths[i] > lengths[j]
    /\ isHigherPrecedence(options, environment[i].emit, environment[j].emit)
    /\ WonBy(i)

C1_Witness == TokenReturned /\ C1_Case(LongestLengths)

(* C2 [tie-break law]: when exactly two emitting rules attain the maximum  *)
(* match length, the token comes from the later-registered one exactly     *)
(* when isHigherPrecedence(earlier type, later type) is true, and from the *)
(* earlier one otherwise.                                                  *)
C2_Law(lengths) ==
  \A e, l \in TopIn(lengths) :
    (e < l /\ TopIn(lengths) = {e, l}) =>
      IF isHigherPrecedence(options, environment[e].emit, environment[l].emit)
        THEN WonBy(l) /\ last.from # environment[e].name
        ELSE WonBy(e) /\ last.from # environment[l].name

C2_TieBreak == TokenReturned => C2_Law(LongestLengths)

(* a tie that the later rule wins under a precedence that would not have   *)
(* preferred the earlier one had the two been asked about in the other     *)
(* order                                                                   *)
C2_Case(lengths) ==
  \E e, l \in TopIn(lengths) :
    /\ e < l
    /\ TopIn(lengths) = {e, l}
    /\ isHigherPrecedence(options, environment[e].emit, environment[l].emit)
    /\ ~isHigherPrecedence(options, environment[l].emit, environment[e].emit)
    /\ WonBy(l)

C2_Witness == TokenReturned /\ C2_Case(LongestLengths)

SameToken(a, b) ==
  /\ a.kind = b.kind
  /\ a.type = b.type
  /\ a.lexeme = b.lexeme
  /\ a.line = b.line
  /\ a.column = b.column

(* C3 [peek then get]: a get call made right after a peek call returns the *)
(* token the peek returned (same type, lexeme, line and column; the same   *)
(* failure when the peek failed), and it leaves currentCharacterIndex      *)
(* where a single get call from the state before the peek leaves it.       *)
C3_Step(single) ==
  (last.op = "peek" /\ last'.op = "get") =>
    /\ SameToken(last', last)
    /\ SameToken(last', single)
    /\ currentCharacterIndex' = single.index

C3_PeekThenGet ==
  [][C3_Step(tryGetNextToken(options, environment, input, last.before))]_vars

(* a get call that followed a peek call returned a token and consumed it *)
C3_Witness ==
  /\ ScanReturned /\ last.op = "get" /\ last.afterPeek
  /\ last.kind = "token"
  /\ currentCharacterIndex > last.before

PeekStep == last'.op = "peek" /\ last'.kind \in {"token", "eof", "fail"}

NewlinesBefore(input_, index) == {k \in 1..index : input_[k] = LF}
LineOf(input_, index) == 1 + Cardinality(NewlinesBefore(input_, index))
ColumnOf(input_, index) ==
  IF NewlinesBefore(input_, index) = {} THEN index
  ELSE index - (CHOOSE k \in NewlinesBefore(input_, index) :
                  \A m \in NewlinesBefore(input_, index) : m <= k)

NoRuleMatches(lengths) == MatchingIn(lengths) = {}

(* C5 [scan failure], the call: a get call whose token attempt starts      *)
(* inside the input where no emitting rule has a match returns a failure   *)
(* (and only then), with the line and column of the character at           *)
(* startIndex, leaves currentIndex = startIndex + 1 and changes neither    *)
(* the input nor the environment.                                          *)
C5_Fails(lengths) ==
  (last'.op = "get" /\ last'.kind \in {"token", "eof", "fail"}) =>
    /\ last'.kind = "fail" <=>
         (startCharacterIndex' < Len(input) /\ NoRuleMatches(lengths))
    /\ last'.kind = "fail" =>
         /\ currentCharacterIndex' = startCharacterIndex' + 1
         /\ last'.line = LineOf(input, startCharacterIndex')
         /\ last'.column = ColumnOf(input, startCharacterIndex')
         /\ input' = input
         /\ environment' = environment

(* C5, the call after it: scanning resumes past the failing character *)
C5_Resumes ==
  (last.op = "get" /\ last.kind = "fail" /\ last'.op \in {"get", "peek"}) =>
    /\ startCharacterIndex' >= currentCharacterIndex
    /\ startCharacterIndex' > startCharacterIndex

C5_ScanFailure ==
  [][/\ C5_Fails(LongestLengthsAt(environment, input, startCharacterIndex'))
     /\ C5_Resumes]_vars

(* a failure on the second line of the input *)
C5_Witness ==
  /\ ScanReturned /\ last.op = "get" /\ last.kind = "fail"
  /\ last.line = 2
  /\ currentCharacterIndex = startCharacterIndex + 1

(* C6 [empty input]: on the empty input hasNextToken is false before and   *)
(* after the first get call, and that call returns the EOF token with the  *)
(* configured type, the empty lexeme, line 1 and column 0.                 *)
C6_EmptyInput ==
  (generated /\ input = <<>>) =>
    /\ ~hasNextToken(input, currentCharacterIndex)
    /\ last.op = "get" =>
         /\ last.kind = "eof"
         /\ last.type = options.EOF_TYPE
         /\ last.lexeme = <<>>
         /\ last.line = 1
         /\ last.column = 0

(* C7 [offset invariant]: currentIndex never passes input.length, and it   *)
(* is input.length after a get call that returned the EOF token.           *)
C7_OffsetWithinInput ==
  generated =>
    /\ currentCharacterIndex <= Len(input)
    /\ (last.op = "get" /\ last.kind = "eof") => currentCharacterIndex = Len(input)

(* C8 [helper rules never win]: a returned token comes from a rule         *)
(* registered with an emit type and carries that type; and when some       *)
(* emitting rule matches at the start of the attempt the call returns a    *)
(* token, whatever helper and intrinsic rules match there.                 *)
C8_Law(lengths) ==
  /\ last.kind = "token" =>
       /\ EnvHas(environment, last.from)
       /\ EnvGet(environment, last.from).emit # NULL
       /\ last.type = EnvGet(environment, last.from).emit
  /\ MatchingIn(lengths) # {} => last.kind = "token"

C8_HelpersNeverWin ==
  (ScanReturned /\ last.kind \in {"token", "fail"}) => C8_Law(LongestLengths)

HelperMatchesLonger ==
  \E i \in 1..Len(environment) :
    /\ environment[i].emit = NULL
    /\ \E m \in Range(getMatches(environment[i].node,
                                 substring(input, startCharacterIndex),
                                 environment).matches) :
         Len(m) > Len(last.raw)

(* a token returned while a helper rule had a strictly longer match *)
C8_Witness == TokenReturned /\ HelperMatchesLonger

(***************************************************************************)
(* The caller's loop, while (lexer.hasNextToken()) lexer.tryGetNextToken(): *)
(* the tokens it is handed from an offset on, each with the offsets its    *)
(* text spans.  A failure is passed over; a call that throws or never      *)
(* returns ends the sequence with an entry of that kind, and so does a     *)
(* token that leaves the offset where it was.                              *)
(***************************************************************************)
Surfaced1(kind, type, lexeme, start, end) ==
  [kind |-> kind, type |-> type, lexeme |-> lexeme, start |-> start, end |-> end]

RECURSIVE Surfaced(_, _, _, _)

SurfacedAfter(options_, environment_, input_, currentIndex, ret) ==
  IF ret.kind \in {"crash", "hang"}
    THEN <<Surfaced1(ret.kind, NULL, <<>>, ret.start, ret.index)>>
  ELSE IF ret.kind = "fail"
    THEN Surfaced(options_, environment_, input_, ret.index)
  ELSE IF ret.index = currentIndex
    THEN <<Surfaced1(ret.kind, ret.type, ret.lexeme, ret.start, ret.index),
           Surfaced1("hang", NULL, <<>>, ret.index, ret.index)>>
  ELSE <<Surfaced1(ret.kind, ret.type, ret.lexeme, ret.start, ret.index)>>
         \o Surfaced(options_, environment_, input_, ret.index)

Surfaced(options_, environment_, input_, currentIndex) ==
  IF ~hasNextToken(input_, currentIndex) THEN <<>>
  ELSE SurfacedAfter(options_, environment_, input_, currentIndex,
                     tryGetNextToken(options_, environment_, input_, currentIndex))

TypesAndLexemes(tokens) == [k \in 1..Len(tokens) |-> <<tokens[k].kind, tokens[k].type, tokens[k].lexeme>>]

Insert(input_, at, ch) ==
  SubSeq(input_, 1, at) \o <<ch>> \o SubSeq(input_, at + 1, Len(input_))

(* whether some emitting rule has, somewhere in the input, a match that    *)
(* holds the character                                                     *)
RuleMatchesChar(environment_, input_, ch) ==
  \E i \in 1..Len(environment_) : \E k \in 0..Len(input_) :
    /\ environment_[i].emit # NULL
    /\ \E m \in Range(getMatches(environment_[i].node, substring(input_, k), environment_).matches) :
         ch \in Range(m)

(* C9 [whitespace/ignore idempotence]: when every call of the caller's     *)
(* loop returns, a configured whitespace character that no emitting rule   *)
(* matches, inserted anywhere between two consecutive surfaced tokens,     *)
(* leaves the types and lexemes of the surfaced tokens as they were; and   *)
(* no token whose type is in ignoreTokens is returned.                     *)
C9_Inserted(tokens, longer, ch) ==
  RuleMatchesChar(environment, longer, ch)
    \/ TypesAndLexemes(Surfaced(options, environment, longer, 0)) = TypesAndLexemes(tokens)

C9_Law(tokens) ==
  (\A k \in 1..Len(tokens) : tokens[k].kind \in {"token", "eof"}) =>
    \A k \in 1..(Len(tokens) - 1) :
      \A at \in tokens[k].end..tokens[k + 1].start :
        \A ch \in Range(initializeCharacter(options)) \cap InputAlphabet :
          C9_Inserted(tokens, Insert(input, at, ch), ch)

C9_WhitespaceIdempotence ==
  /\ (generated /\ last.op = "generate") => C9_Law(Surfaced(options, environment, input, 0))
  /\ (ScanReturned /\ last.kind \in {"token", "eof"} /\ options.ignoreTokens # UNDEFINED) =>
       last.type \notin Range(options.ignoreTokens)

(* C10 [bound at generation time]: an addRule call made after generate     *)
(* does not change the tokens the scanner returns for the rest of its      *)
(* input.                                                                  *)
C10_Step(before, after) ==
  (generated /\ last'.op = "addRule") => TypesAndLexemes(after) = TypesAndLexemes(before)

C10_BoundAtGeneration ==
  [][C10_Step(Surfaced(options, environment, input, currentCharacterIndex),
              Surfaced(options, environment', input, currentCharacterIndex))]_vars

(* C11 [token position]: a returned non-EOF token carries the position of  *)
(* the first character of its lexeme, startIndex after whitespace and      *)
(* ignored tokens were skipped: line = 1 + the number of newlines before   *)
(* startIndex, column = the number of characters between the last newline  *)
(* before startIndex (or the start of the input) and startIndex.           *)
C11_TokenPosition ==
  TokenReturned =>
    /\ last.line = LineOf(input, startCharacterIndex)
    /\ last.column = ColumnOf(input, startCharacterIndex)
    /\ SubSeq(input, startCharacterIndex + 1, startCharacterIndex + Len(last.raw)) = last.raw

(* a token on the second line, found after a token or whitespace *)
C11_Witness ==
  /\ TokenReturned
  /\ last.line = 2
  /\ startCharacterIndex > last.before

(***************************************************************************)
(* A rule expression on its own: an expression is drawn, and addRule's     *)
(* steps are taken one by one: lex, parse, environment.set.                *)
(***************************************************************************)
ExpressionAlphabet == {"a", "(", ")", "|", "*", "+", "$", "{", "}", "-"}

RECURSIVE Expressions(_)
Expressions(n) ==
  IF n = 0 THEN {<<>>}
  ELSE Expressions(n - 1) \cup
       {Append(e, ch) : e \in {q \in Expressions(n - 1) : Len(q) = n - 1}, ch \in ExpressionAlphabet}

RuleName == <<"r">>

RuleInit ==
  /\ Idle
  /\ NoMatching
  /\ environment = Intrinsics
  /\ ruleExpression \in Expressions(MaxExpressionLen)
  /\ ruleTokens = <<>>
  /\ ruleRoot = <<>>

(* const tokens = new RegexLexer(expression).lex() *)
Lex ==
  /\ ruleTokens = <<>>
  /\ \E lexed \in {lex(ruleExpression)} : ruleTokens' = <<lexed>>
  /\ UNCHANGED <<engine, matchVars, ruleExpression, ruleRoot>>

(* const root = new RegexParser(tokens).parse() *)
Parse ==
  /\ ruleTokens # <<>>
  /\ ~ruleTokens[1].hangs
  /\ ruleRoot = <<>>
  /\ \E parsed \in {parse(ruleTokens[1].tokens)} : ruleRoot' = <<parsed>>
  /\ UNCHANGED <<engine, matchVars, ruleExpression, ruleTokens>>

(* root.setTokenType(emit); this.environment.set(name, root) *)
SetRule ==
  /\ ruleRoot # <<>>
  /\ ruleRoot[1].ok
  /\ ~EnvHas(environment, RuleName)
  /\ environment' = Register(environment, RuleName, "A", UNDEFINED, ruleRoot[1]).environment
  /\ UNCHANGED <<options, generated, input, currentCharacterIndex, startCharacterIndex, last>>
  /\ UNCHANGED <<ruleVars, matchVars>>

RuleNext ==
  \/ Lex
  \/ Parse
  \/ SetRule

RuleSpec == RuleInit /\ [][RuleNext]_vars

(***************************************************************************)
(* What a getMatches call is checked against.                              *)
(***************************************************************************)
Called == matchResult # <<>>
Returned == Called /\ ~matchResult[1].diverges
Result == Range(matchResult[1].matches)

IsPrefix(p, r) == Len(p) <= Len(r) /\ SubSeq(r, 1, Len(p)) = p
Advance(r, n) == SubSeq(r, n + 1, Len(r))

IsRepetition(n) == n.kind = "Grouping" /\ n.modifier \in {"NONE_OR_MORE", "ONE_OR_MORE"}

(* the nodes that match exactly one character of a class, and the class *)
IsClassNode(n) ==
  \/ n.kind = "Literal"
  \/ n.kind = "Variable" /\ n.variableName = LowercaseLetter
  \/ n.kind = "Either" /\ \A i \in 1..Len(n.nodes) : n.nodes[i].kind = "Literal"

ClassOf(n) ==
  CASE n.kind = "Literal" -> {n.ch}
    [] n.kind = "Variable" -> {ch \in RestAlphabet : isAlphabeticLowercase(ch)}
    [] n.kind = "Either" -> {n.nodes[i].ch : i \in 1..Len(n.nodes)}

(* C12 [repetition correctness]: for an inner node that matches exactly    *)
(* one character of a class and a rest string made of characters of the    *)
(* class only, (inner)+ and (inner)* return, with the whole rest string    *)
(* among the matches when it is not empty; on the empty rest string        *)
(* (inner)+ has no match and (inner)* matches the empty string.            *)
C12_Law(n) ==
  (IsRepetition(n) /\ IsClassNode(n.internalNode)
     /\ Range(matchRest) \subseteq ClassOf(n.internalNode)) =>
    /\ Returned
    /\ Len(matchRest) >= 1 => matchRest \in Result
    /\ (Len(matchRest) = 0 /\ n.modifier = "ONE_OR_MORE") => Result = {}
    /\ (Len(matchRest) = 0 /\ n.modifier = "NONE_OR_MORE") => <<>> \in Result

C12_RepetitionCorrect == Called => C12_Law(matchNode[1])

(* (${__lowercase_letter})+ has matched a rest string of several letters *)
C12_Witness ==
  /\ Returned
  /\ matchNode[1] = RegexGroupingNode(RegexVariableNode(LowercaseLetter), "ONE_OR_MORE")
  /\ Len(matchRest) = MaxRestLen
  /\ Cardinality(Range(matchRest)) > 1
  /\ matchRest \in Result

(* C13 [matches are prefixes]: every string getMatches returns is a        *)
(* (non-strict) prefix of the rest string, for every node, environment and *)
(* rest string.                                                            *)
C13_MatchesArePrefixes ==
  Returned => \A m \in Result : IsPrefix(m, matchRest)

(* a concatenation over a variable returned a proper, non-empty prefix *)
C13_Witness ==
  /\ Returned
  /\ matchNode[1].kind = "Concatenation"
  /\ \E i \in 1..Len(matchNode[1].nodes) : matchNode[1].nodes[i].kind = "Variable"
  /\ \E m \in Result : Len(m) > 1 /\ Len(m) < Len(matchRest)

RECURSIVE AllDepths(_, _, _, _)

AllDepthsNext(internalNode, restString, environment_, matches_, nextMatches) ==
  IF nextMatches.diverges \/ Len(nextMatches.matches) = 0
       \/ Range(nextMatches.matches) = Range(matches_)
    THEN Range(matches_)
    ELSE Range(matches_) \cup AllDepths(internalNode, restString, environment_, nextMatches.matches)

(* the strings of every repetition depth the loop reaches, from the        *)
(* matches of one depth on                                                 *)
AllDepths(internalNode, restString, environment_, matches_) ==
  AllDepthsNext(internalNode, restString, environment_, matches_,
                ExtendAll(internalNode, restString, environment_, matches_, TRUE))

(* C14 [union of the repetition depths]: the match set of (inner)* and of  *)
(* (inner)+ holds the strings of every repetition depth reached, not only  *)
(* those of the deepest; so (a)*a and (a)+a match "aaa".                   *)
C14_Depths(n) ==
  /\ IsRepetition(n) =>
       AllDepths(n.internalNode, matchRest, environment,
                 getMatches(n.internalNode, matchRest, environment).matches) \subseteq Result
  /\ (/\ n.kind = "Concatenation"
      /\ Len(n.nodes) = 2
      /\ IsRepetition(n.nodes[1])
      /\ n.nodes[1].internalNode = RegexLiteralNode("a")
      /\ n.nodes[2] = RegexLiteralNode("a")
      /\ matchRest = <<"a", "a", "a">>) => matchRest \in Result

C14_UnionOfDepths == Returned => C14_Depths(matchNode[1])

(* C15 [zero repetitions]: the match set of (inner)* holds the empty       *)
(* string, also when inner matches at the start of the rest string.        *)
C15_StarMatchesEmpty ==
  (Returned /\ matchNode[1].kind = "Grouping" /\ matchNode[1].modifier = "NONE_OR_MORE") =>
    <<>> \in Result

(* C16 [repetition terminates]: getMatches of (inner)* and (inner)+        *)
(* returns for every rest string, also when inner can match the empty      *)
(* string.                                                                 *)
C16_RepetitionTerminates ==
  (Called /\ IsRepetition(matchNode[1])) => ~matchResult[1].diverges

RECURSIVE Products(_, _, _, _)
(* the strings p1 + ... + pn, each pi among the matches of the i-th node   *)
(* on the rest string advanced by the length of p1 + ... + p(i-1)          *)
Products(nodes, restString, environment_, consumed) ==
  IF nodes = <<>> THEN {<<>>}
  ELSE UNION {{p \o q : q \in Products(Tail(nodes), restString, environment_, consumed + Len(p))} :
                p \in Range(getMatches(Head(nodes), Advance(restString, consumed), environment_).matches)}

(* C20 [concatenation]: the match set of a concatenation is the set of the *)
(* strings p1 + ... + pn with pi matched by the i-th node on the rest      *)
(* string advanced by the length of what precedes it; removing the         *)
(* accepted prefix from the rest string is the same as advancing.          *)
C20_Concatenation ==
  (Returned /\ matchNode[1].kind = "Concatenation") =>
    Result = Products(matchNode[1].nodes, matchRest, environment, 0)

(* a concatenation matched after a first part that occurs again later in   *)
(* the rest string                                                         *)
C20_Witness ==
  /\ Returned
  /\ matchNode[1].kind = "Concatenation"
  /\ matchRest = <<"a", "b", "a">>
  /\ matchNode[1].nodes[1] = RegexLiteralNode("a")
  /\ matchRest \in Result

(***************************************************************************)
(* What lex and parse are checked against.                                 *)
(***************************************************************************)
LexCalled == ruleTokens # <<>>
ParseCalled == ruleRoot # <<>>

(* C17 [rule-lexer failure]: lex returns for every expression, with an     *)
(* error for one that holds a character it does not handle; addRule then   *)
(* neither hangs nor registers the rule.                                   *)
C17_LexerRejects ==
  LexCalled => ~ruleTokens[1].hangs

(* C18 [no trailing tokens]: when the top-level parse returns a node it    *)
(* has consumed every token of the expression, and only such a node is     *)
(* registered.                                                             *)
C18_ParseConsumesAll ==
  (ParseCalled /\ ruleRoot[1].ok) => ruleRoot[1].index = Len(ruleTokens[1].tokens)

(* The grammar Regex := Concatenation ('|' Concatenation)*,                *)
(* Concatenation := Terminal+, Terminal := LITERAL | VARIABLE |            *)
(* '(' Regex ')' ['*' | '+']: the indices at which a derivation that       *)
(* starts at index i can end.                                              *)
RECURSIVE RegexEnds(_, _)
RECURSIVE ConcatenationEnds(_, _)
RECURSIVE TerminalEnds(_, _)

IsType(ts, i, type) == i < Len(ts) /\ ts[i + 1].type = type

GroupEnds(ts, inner) ==
  UNION {{j + 1} \cup (IF IsType(ts, j + 1, "ASTERISK") \/ IsType(ts, j + 1, "PLUS")
                         THEN {j + 2} ELSE {}) :
           j \in {k \in inner : IsType(ts, k, "RPAREN")}}

TerminalEnds(ts, i) ==
  IF IsType(ts, i, "LITERAL") \/ IsType(ts, i, "VARIABLE") THEN {i + 1}
  ELSE IF IsType(ts, i, "LPAREN") THEN GroupEnds(ts, RegexEnds(ts, i + 1))
  ELSE {}

ConcatenationMore(ts, ends) == ends \cup UNION {ConcatenationEnds(ts, j) : j \in ends}
ConcatenationEnds(ts, i) == ConcatenationMore(ts, TerminalEnds(ts, i))

RegexMore(ts, ends) ==
  ends \cup UNION {RegexEnds(ts, j + 1) : j \in {k \in ends : IsType(ts, k, "PIPE")}}
RegexEnds(ts, i) == RegexMore(ts, ConcatenationEnds(ts, i))

Derivable(ts) == Len(ts) \in RegexEnds(ts, 0)

(* C19 [parsing is total over the grammar]: for every token stream the     *)
(* grammar derives, parse returns a node and has consumed every token; a   *)
(* group without modifier is a Grouping with modifier NONE.                *)
C19_Law(ts, parsed) ==
  Derivable(ts) =>
    /\ parsed.ok
    /\ parsed.index = Len(ts)
    /\ (Len(ts) = 3 /\ IsType(ts, 0, "LPAREN") /\ IsType(ts, 2, "RPAREN")) =>
         (parsed.node.kind = "Grouping" /\ parsed.node.modifier = "NONE")

C19_ParseTotal ==
  ParseCalled => C19_Law(ruleTokens[1].tokens, ruleRoot[1])

(***************************************************************************)
(* The scanner over prepared rule sets: the rules are registered by        *)
(* addRule calls before generate, as the examples do, and the engine is    *)
(* then driven by the same calls as in Spec.  UnresolvedRules is a rule    *)
(* set with a reference to a name that no rule defines, as the             *)
(* float_number rule of examples/basic.ts; EmptyRules has a token rule     *)
(* that matches the empty string where no "a" stands.                      *)
(***************************************************************************)
UnresolvedName == <<"q">>

UnresolvedRules ==
  << [name |-> <<"u">>, expression |-> <<"$", "{", "q", "}", "|", "b">>,
      emit |-> "A", transformer |-> UNDEFINED],
     [name |-> <<"v">>, expression |-> <<"a", "$", "{", "q", "}">>,
      emit |-> "B", transformer |-> UNDEFINED],
     [name |-> <<"x">>, expression |-> <<"a">>,
      emit |-> "C", transformer |-> UNDEFINED] >>

EmptyRules ==
  << [name |-> <<"x">>, expression |-> <<"a">>,
      emit |-> "A", transformer |-> UNDEFINED],
     [name |-> <<"e">>, expression |-> <<"(", "a", ")", "*">>,
      emit |-> "E", transformer |-> UNDEFINED] >>

(* the addRule calls of a program, in order *)
RECURSIVE AddRules(_, _)
AddRules(environment_, rules) ==
  IF rules = <<>> THEN environment_
  ELSE AddRules(addRule(environment_, Head(rules).name, Head(rules).expression,
                        Head(rules).emit, Head(rules).transformer).environment,
                Tail(rules))

ScanRuleSets == {UnresolvedRules, EmptyRules}

(* options with the default whitespace: nothing ignored, a token type      *)
(* ignored, the EOF type ignored                                           *)
ScanOptionSets ==
  { [EOF_TYPE |-> "EOF", isHigherPrecedence |-> "never",
     whitespaceCharacters |-> UNDEFINED, ignoreTokens |-> ignored] :
      ignored \in {<<>>, <<"E">>, <<"EOF">>} }

ScanInit ==
  /\ options \in ScanOptionSets
  /\ environment \in {AddRules(Intrinsics, rules) : rules \in ScanRuleSets}
  /\ generated = FALSE
  /\ input = <<>>
  /\ currentCharacterIndex = 0
  /\ startCharacterIndex = 0
  /\ last = Plain("new", "ok")
  /\ NoRule
  /\ NoMatching

ScanNext ==
  \/ Generate
  \/ TryGetNextToken
  \/ GetNextToken
  \/ TryPeekNextToken
  \/ PeekNextToken

ScanSpec == ScanInit /\ [][ScanNext]_vars

(***************************************************************************)
(* Claims about the scanner over the prepared rule sets.                   *)
(***************************************************************************)
Suffixes(s) == {SubSeq(s, i + 1, Len(s)) : i \in 0..Len(s)}

HasUnresolved ==
  /\ ~EnvHas(environment, UnresolvedName)
  /\ EnvHas(environment, <<"u">>)

(* the matches of an alternation without one of its alternatives *)
WithoutAlternative(either, dropped, restString, environment_) ==
  getMatches(RegexEitherNode(SelectSeq(either.nodes, LAMBDA n : n # dropped)),
             restString, environment_)

C21_Law(either, restString, environment_) ==
  /\ getMatches(RegexVariableNode(UnresolvedName), restString, environment_)
       = Matched(<<>>)
  /\ either.kind = "Either"
  /\ \E i \in 1..Len(either.nodes) :
       either.nodes[i] = RegexVariableNode(UnresolvedName)
  /\ getMatches(either, restString, environment_)
       = WithoutAlternative(either, RegexVariableNode(UnresolvedName),
                            restString, environment_)

(* C21 [unresolved references]: in a rule set whose rules refer to a name  *)
(* that no rule defines, matching the Variable of that name returns the    *)
(* empty match set at every offset of the input, the alternation that has  *)
(* it as an alternative returns exactly the matches of its other           *)
(* alternatives, and no scan call raises or fails to return because of     *)
(* the reference: every call returns a token, the end of input or the      *)
(* failure result, getNextToken raises only on the failure result, and a   *)
(* call fails to return only where the ignore set holds the EOF type.      *)
C21_UnresolvedVariable ==
  (ScanReturned /\ HasUnresolved) =>
    /\ \A rest \in Suffixes(input) :
         C21_Law(EnvGet(environment, <<"u">>).node, rest, environment)
    /\ last.kind \in {"token", "eof", "fail", "hang"}
    /\ last.kind = "hang" => options.ignoreTokens = <<options.EOF_TYPE>>
    /\ last.raised => last.kind = "fail"

(* a scan over the rule set returned the token of the alternation's other  *)
(* alternative *)
C21_Witness ==
  /\ ScanReturned /\ HasUnresolved
  /\ last.op = "get" /\ last.kind = "token"
  /\ last.from = <<"u">> /\ last.type = "A" /\ last.lexeme = <<"b">>
  /\ input = <<"a", "b">>

(***************************************************************************)
(* Claims about the rule lexer at the end of the expression.               *)
(***************************************************************************)
(* the index the lexer's loop moves to from index, and -1 where it stays   *)
(* on the character                                                        *)
LexStep(expression, index) ==
  LET c == charAt(expression, index)
  IN IF c \in {"|", "+", "*", "(", ")"} \/ isAlphabetic(c) \/ isDigit(c) THEN index + 1
     ELSE IF c = "$"
       THEN IF charAt(expression, index + 1) = "{" /\ Len(expression) > index + 2
              THEN VariableEnd(expression, index + 2) + 1
              ELSE index + 2
     ELSE IF isWhitespace(DefaultWhitespace, c) THEN index + 1
     ELSE -1

(* the lexer's loop, started at index, comes to read the character at target *)
RECURSIVE Reads(_, _, _)
Reads(expression, index, target) ==
  IF index = target THEN TRUE
  ELSE IF index < 0 \/ index > target THEN FALSE
  ELSE Reads(expression, LexStep(expression, index), target)

(* the expression's last two characters are "${" and the lexer reads the   *)
(* "$" as the start of a token                                             *)
EndsWithOpen(expression) ==
  /\ Len(expression) >= 2
  /\ SubSeq(expression, Len(expression) - 1, Len(expression)) = <<"$", "{">>
  /\ Reads(expression, 0, Len(expression) - 2)

C22_Law(expression, lexed, value) ==
  /\ ~lexed.hangs
  /\ lexed.tokens # <<>>
  /\ lexed.tokens[Len(lexed.tokens)] = [type |-> "LITERAL", value |-> value]
  /\ LexFrom(expression, Len(expression) - 2, <<>>)
       = Lexed(<<[type |-> "LITERAL", value |-> value]>>)

(* C22 [unterminated reference, as claimed]: for an expression whose last  *)
(* two characters are "${", lex emits for them a single LITERAL token      *)
(* whose value is "}".                                                     *)
C22_OpenIsRightBrace ==
  (LexCalled /\ EndsWithOpen(ruleExpression)) =>
    C22_Law(ruleExpression, ruleTokens[1], "}")

(* C22 [unterminated reference]: for an expression whose last two          *)
(* characters are "${", read by the lexer as the start of a token, lex     *)
(* returns and emits for them a single LITERAL token whose value is "{",   *)
(* the character after the "$", as for any other escaped character.        *)
C22_OpenIsLeftBrace ==
  (LexCalled /\ EndsWithOpen(ruleExpression)) =>
    C22_Law(ruleExpression, ruleTokens[1], "{")

(* the expression "a${" was lexed *)
C22_Witness ==
  /\ LexCalled
  /\ ruleExpression = <<"a", "$", "{">>
  /\ ruleTokens[1] = Lexed(<<[type |-> "LITERAL", value |-> "a"],
                             [type |-> "LITERAL", value |-> "{"]>>)

(***************************************************************************)
(* Claims about the offset and the lexeme of a returned token.             *)
(***************************************************************************)
(* the lexeme that the rule of the given name makes of the matched text *)
LexemeOf(environment_, name, matched) ==
  IF EnvGet(environment_, name).transformer # NULL
    THEN ApplyTransformer(EnvGet(environment_, name).transformer, matched)
    ELSE matched

(* C23 [offset and lexeme of a token]: when getNextToken or                *)
(* tryGetNextToken returns the token of a rule that won at startIndex s    *)
(* with matched text m, currentIndex is s + len(m), m is the input from s  *)
(* to s + len(m), and the token's lexeme is what the winning rule's        *)
(* transformer makes of m, or m when the rule has none; the advance is by  *)
(* len(m) whatever the length of the lexeme.                               *)
C23_AdvanceByMatch ==
  (TokenReturned /\ last.op = "get") =>
    /\ currentCharacterIndex = startCharacterIndex + Len(last.raw)
    /\ currentCharacterIndex <= Len(input)
    /\ last.raw = SubSeq(input, startCharacterIndex + 1, currentCharacterIndex)
    /\ EnvHas(environment, last.from)
    /\ last.lexeme = LexemeOf(environment, last.from, last.raw)

(* the rule with a transformer won with "ab", of which the transformer     *)
(* leaves the empty lexeme, and the index moved by two                     *)
C23_Witness ==
  /\ TokenReturned /\ last.op = "get"
  /\ last.from = <<"w">>
  /\ last.raw = <<"a", "b">>
  /\ last.lexeme = <<>>
  /\ startCharacterIndex = 0
  /\ currentCharacterIndex = 2

(***************************************************************************)
(* Claims about the scanner's progress.                                    *)
(***************************************************************************)
(* a step that is a getNextToken or tryGetNextToken call made with input   *)
(* left to read                                                            *)
GetStepBeforeEnd ==
  /\ generated
  /\ last'.op = "get"
  /\ currentCharacterIndex < Len(input)

(* C24 [scanner progress]: whatever the rule set and the ignore set, a     *)
(* tryGetNextToken call made with currentIndex < input.length returns, and *)
(* returns with currentIndex strictly greater than before the call.        *)
C24_Step ==
  GetStepBeforeEnd =>
    /\ last'.kind # "hang"
    /\ currentCharacterIndex' > currentCharacterIndex

C24_ScannerProgress == [][C24_Step]_vars

====
